---- MODULE Spec2Model ----
(***************************************************************************)
(* Model of word_filler: the inline-markup scanner split_text, the value   *)
(* setter of ContentControlField and Document.get_fields / set_fields.     *)
(*                                                                         *)
(* A Python str is modelled as a sequence of one-character strings, so     *)
(* that scanning, splitting and comparison are computed character by       *)
(* character as the code does.                                             *)
(***************************************************************************)
EXTENDS Integers, Sequences, FiniteSets, TLC

VARIABLES
    \* ---- split_text: the locals of one call (lines 29-35) ----
    fmttext,      \* the argument
    pos,          \* index of the next character the for loop takes
    text,
    curtag,
    tagname,      \* the "inside a tag" flag
    tag_stack,
    text_index,
    escaped,
    result,       \* "idle" | "running" | "returned" | "RuntimeError" | "ValueError"
    \* ---- the document and one call of Document.set_fields ----
    controls,     \* the content controls of the document, in story order
    mapping,      \* the argument of set_fields: a sequence of <<key, value>>
    idx,          \* index of the next mapping entry
    status,       \* "idle" | "running" | "done" | "failed"
    error,        \* the exception that left set_fields, or NoError
    pre           \* the controls when set_fields was called

parseVars == <<fmttext, pos, text, curtag, tagname, tag_stack, text_index, escaped, result>>
docVars == <<controls, mapping, idx, status, error, pre>>
vars == <<fmttext, pos, text, curtag, tagname, tag_stack, text_index, escaped, result,
          controls, mapping, idx, status, error, pre>>

(***************************************************************************)
(* Bounds of the model                                                     *)
(***************************************************************************)
MaxLen == 4
MaxTokens == 4
MaxControls == 2
RangeGap == 10
MaxText == 2

\* Characters: the six with a role in the syntax and two ordinary ones.
Alphabet == {"<", ">", "\\", "/", " ", "=", "b", "1"}

Unset == -1

(***************************************************************************)
(* String helpers (Python str methods used by the code)                    *)
(***************************************************************************)
\* The concatenation of a sequence of strings.
RECURSIVE Concat(_)
Concat(ss) == IF ss = <<>> THEN <<>> ELSE Head(ss) \o Concat(Tail(ss))

\* Index of the first occurrence of character sep in s, 0 if there is none.
FirstIndex(s, sep) ==
    IF \E i \in 1..Len(s) : s[i] = sep
    THEN CHOOSE i \in 1..Len(s) : s[i] = sep /\ \A j \in 1..(i-1) : s[j] # sep
    ELSE 0

\* s.split(sep) for a one-character separator: every occurrence splits.
RECURSIVE Split(_, _)
Split(s, sep) ==
    LET i == FirstIndex(s, sep)
    IN  IF i = 0 THEN <<s>>
        ELSE <<SubSeq(s, 1, i-1)>> \o Split(SubSeq(s, i+1, Len(s)), sep)

\* s.startswith("/")
StartsWithSlash(s) == Len(s) > 0 /\ s[1] = "/"

\* s[1:]
DropFirst(s) == SubSeq(s, 2, Len(s))

(***************************************************************************)
(* Format (lines 19-25) and the tag stack                                  *)
(***************************************************************************)
Format(tag, start, stop, attrs) ==
    [tag |-> tag, start |-> start, stop |-> stop, attrs |-> attrs]

\* [a.split("=") for a in attrs] (line 53)
AttrPairs(attrs) == [i \in 1..Len(attrs) |-> Split(attrs[i], "=")]

\* dict(pairs) raises ValueError unless every element has exactly two items.
DictOK(pairs) == \A i \in 1..Len(pairs) : Len(pairs[i]) = 2

\* dict(pairs): a later pair with the same key replaces an earlier one.
MakeDict(pairs) ==
    [k \in {pairs[i][1] : i \in 1..Len(pairs)} |->
        pairs[CHOOSE i \in 1..Len(pairs) :
                 /\ pairs[i][1] = k
                 /\ \A j \in (i+1)..Len(pairs) : pairs[j][1] # k][2]]

\* Faulty variant of FindMatch: strictly last-in-first-out, the top entry closes
\* whatever the name of the closing tag.
FindMatchTopOnly(stack, name) == Len(stack)

\* for t in tag_stack[::-1]: if t.tag == name: ... break   (lines 45-48)
\* The index of the entry the loop stops at, 0 when it runs into its else.
FindMatch(stack, name) ==
    IF \E i \in 1..Len(stack) : stack[i].tag = name
    THEN CHOOSE i \in 1..Len(stack) :
            /\ stack[i].tag = name
            /\ \A j \in (i+1)..Len(stack) : stack[j].tag # name
    ELSE 0

\* Faulty variant of CloseEntry: the entry found is popped off the stack.
CloseEntryPops(stack, i, index) ==
    [k \in 1..(Len(stack) - 1) |-> IF k < i THEN stack[k] ELSE stack[k + 1]]

\* t.stop = text_index on the entry found (line 47)
CloseEntry(stack, i, index) == [stack EXCEPT ![i].stop = index]

\* Faulty variant of PushEntry: a new entry starts with stop 0 instead of -1.
PushEntryStopZero(stack, name, index, attrs) ==
    Append(stack, Format(name, index, 0, MakeDict(AttrPairs(attrs))))

\* tag_stack.append(Format(...)) (lines 52-54)
PushEntry(stack, name, index, attrs) ==
    Append(stack, Format(name, index, Unset, MakeDict(AttrPairs(attrs))))

(***************************************************************************)
(* split_text: one iteration of the for loop (lines 36-62), as a function  *)
(* of the locals st and the character c.  st.err is "none" until an        *)
(* exception leaves the function.                                          *)
(***************************************************************************)
IsEscape(st, c) == c = "\\" /\ ~st.escaped                       \* line 37
IsOpen(st, c) == ~IsEscape(st, c) /\ c = "<" /\ ~st.escaped      \* line 39
IsClose(st, c) ==                                                \* line 42
    ~IsEscape(st, c) /\ ~IsOpen(st, c) /\ c = ">" /\ st.tagname /\ ~st.escaped
IsTagChar(st, c) ==                                              \* line 56
    ~IsEscape(st, c) /\ ~IsOpen(st, c) /\ ~IsClose(st, c) /\ st.tagname
IsText(st, c) ==                                                 \* line 59
    ~IsEscape(st, c) /\ ~IsOpen(st, c) /\ ~IsClose(st, c) /\ ~st.tagname

\* Faulty variant of EscapeStep: the escaping backslash is also emitted as text.
EscapeStepEmits(st) ==
    [st EXCEPT !.escaped = TRUE,
               !.text = Append(st.text, "\\"),
               !.text_index = st.text_index + 1]

\* line 38
EscapeStep(st) == [st EXCEPT !.escaped = TRUE]

\* lines 40-41
OpenStep(st) == [st EXCEPT !.curtag = <<>>, !.tagname = TRUE]

\* lines 43-55
CloseStep(st) ==
    LET parts == Split(st.curtag, " ")
        name  == Head(parts)
        attrs == Tail(parts)
    IN  IF StartsWithSlash(name)
        THEN LET i == FindMatch(st.tag_stack, DropFirst(name))
             IN  IF i = 0
                 THEN [st EXCEPT !.err = "RuntimeError"]
                 ELSE [st EXCEPT !.tag_stack = CloseEntry(st.tag_stack, i, st.text_index),
                                 !.tagname = FALSE]
        ELSE IF ~DictOK(AttrPairs(attrs))
             THEN [st EXCEPT !.err = "ValueError"]
             ELSE [st EXCEPT !.tag_stack = PushEntry(st.tag_stack, name, st.text_index, attrs),
                             !.tagname = FALSE]

\* lines 57-58
TagCharStep(st, c) == [st EXCEPT !.curtag = Append(st.curtag, c), !.escaped = FALSE]

\* Faulty variant of TextStep: a '>' outside a tag is taken for markup and dropped.
TextStepDropsGt(st, c) ==
    IF c = ">"
    THEN [st EXCEPT !.escaped = FALSE]
    ELSE [st EXCEPT !.text = Append(st.text, c),
                    !.text_index = st.text_index + 1,
                    !.escaped = FALSE]

\* Faulty variant of TextStep: the character is emitted but the plain-text
\* index is not advanced.
TextStepNoCount(st, c) ==
    [st EXCEPT !.text = Append(st.text, c), !.escaped = FALSE]

\* lines 60-62
TextStep(st, c) ==
    [st EXCEPT !.text = Append(st.text, c),
               !.text_index = st.text_index + 1,
               !.escaped = FALSE]

Step(st, c) ==
    IF IsEscape(st, c) THEN EscapeStep(st)
    ELSE IF IsOpen(st, c) THEN OpenStep(st)
    ELSE IF IsClose(st, c) THEN CloseStep(st)
    ELSE IF IsTagChar(st, c) THEN TagCharStep(st, c)
    ELSE TextStep(st, c)

\* lines 29-35
InitialLocals ==
    [text |-> <<>>, curtag |-> <<>>, tagname |-> FALSE, tag_stack |-> <<>>,
     text_index |-> 0, escaped |-> FALSE, err |-> "none"]

\* The whole call: the loop over fmttext from position i, then line 63.
RECURSIVE ScanFrom(_, _, _)
ScanFrom(st, s, i) ==
    IF st.err # "none" \/ i > Len(s) THEN st
    ELSE ScanFrom(Step(st, s[i]), s, i + 1)

split_text(s) == ScanFrom(InitialLocals, s, 1)

(***************************************************************************)
(* The scan as a state machine: one action per branch of the loop          *)
(***************************************************************************)
Locals ==
    [text |-> text, curtag |-> curtag, tagname |-> tagname, tag_stack |-> tag_stack,
     text_index |-> text_index, escaped |-> escaped, err |-> "none"]

Scanning == result = "running" /\ pos <= Len(fmttext)

Take(st) ==
    /\ text' = st.text
    /\ curtag' = st.curtag
    /\ tagname' = st.tagname
    /\ tag_stack' = st.tag_stack
    /\ text_index' = st.text_index
    /\ escaped' = st.escaped
    /\ result' = IF st.err = "none" THEN "running" ELSE st.err
    /\ pos' = IF st.err = "none" THEN pos + 1 ELSE pos
    /\ UNCHANGED <<fmttext, controls, mapping, idx, status, error, pre>>

ScanEscape ==
    /\ Scanning /\ IsEscape(Locals, fmttext[pos])
    /\ Take(Step(Locals, fmttext[pos]))

ScanOpen ==
    /\ Scanning /\ IsOpen(Locals, fmttext[pos])
    /\ Take(Step(Locals, fmttext[pos]))

ScanClose ==
    /\ Scanning /\ IsClose(Locals, fmttext[pos])
    /\ Take(Step(Locals, fmttext[pos]))

ScanTagChar ==
    /\ Scanning /\ IsTagChar(Locals, fmttext[pos])
    /\ Take(Step(Locals, fmttext[pos]))

ScanText ==
    /\ Scanning /\ IsText(Locals, fmttext[pos])
    /\ Take(Step(Locals, fmttext[pos]))

\* line 63
ScanReturn ==
    /\ result = "running" /\ pos > Len(fmttext)
    /\ result' = "returned"
    /\ UNCHANGED <<fmttext, pos, text, curtag, tagname, tag_stack, text_index, escaped>>
    /\ UNCHANGED docVars

(***************************************************************************)
(* Inputs of the scan                                                      *)
(***************************************************************************)
SeqsUpTo(S, n) == UNION {[1..k -> S] : k \in 0..n}

\* Whole tags and a text character, to reach inputs longer than MaxLen.
Tokens ==
    { <<"<", "b", ">">>, <<"<", "/", "b", ">">>,
      <<"<", "i", ">">>, <<"<", "/", "i", ">">>,
      <<"<", "f", " ", "s", "=", "1", ">">>, <<"<", "/", "f", ">">>,
      <<"<", "/", "B", ">">>, <<"x">> }

OpenTag(name) == <<"<">> \o name \o <<">">>
CloseTag(name) == <<"<", "/">> \o name \o <<">">>

\* Tag-free texts of up to MaxText characters.
Texts == {[i \in 1..n |-> "x"] : n \in 0..MaxText}

TagNames == {<<"b">>, <<"i">>, <<"f", "o", "n", "t">>}

\* <X>u<Y>v</Y>w</X> for distinct names X and Y
NestedInput(X, u, Y, v, w) ==
    OpenTag(X) \o u \o OpenTag(Y) \o v \o CloseTag(Y) \o w \o CloseTag(X)

NestedInputs ==
    {NestedInput(X, u, Y, v, w) :
        X \in TagNames, Y \in TagNames, u \in Texts, v \in Texts, w \in Texts}
    \ {NestedInput(X, u, X, v, w) : X \in TagNames, u \in Texts, v \in Texts, w \in Texts}

\* Attribute tokens: with one '=', with two, and with an empty value.
AttrTokens ==
    { <<"s", "=", "1">>, <<"t", "=", "1", "2">>, <<"s", "=", "1", "=", "2">>, <<"t", "=">> }

\* <b t1 ... tk> with up to two attribute tokens
AttrInputs ==
    {OpenTag(<<"b">> \o Concat([i \in 1..Len(ts) |-> <<" ">> \o ts[i]])) :
        ts \in SeqsUpTo(AttrTokens, 2)}

\* <b>bold</b> normal
BoldNormal ==
    <<"<", "b", ">", "b", "o", "l", "d", "<", "/", "b", ">",
      " ", "n", "o", "r", "m", "a", "l">>

\* <font size=12>big</font>
FontBig ==
    <<"<", "f", "o", "n", "t", " ", "s", "i", "z", "e", "=", "1", "2", ">",
      "b", "i", "g", "<", "/", "f", "o", "n", "t", ">">>

Inputs ==
    SeqsUpTo(Alphabet, MaxLen)
    \cup {Concat(ts) : ts \in SeqsUpTo(Tokens, MaxTokens)}
    \cup NestedInputs \cup AttrInputs \cup {BoldNormal, FontBig}

IdleDoc ==
    /\ controls = <<>>
    /\ mapping = <<>>
    /\ idx = 0
    /\ status = "idle"
    /\ error = [kind |-> "none", detail |-> <<>>]
    /\ pre = <<>>

Init ==
    /\ fmttext \in Inputs
    /\ pos = 1
    /\ text = InitialLocals.text
    /\ curtag = InitialLocals.curtag
    /\ tagname = InitialLocals.tagname
    /\ tag_stack = InitialLocals.tag_stack
    /\ text_index = InitialLocals.text_index
    /\ escaped = InitialLocals.escaped
    /\ result = "running"
    /\ IdleDoc

Next ==
    \/ ScanEscape
    \/ ScanOpen
    \/ ScanClose
    \/ ScanTagChar
    \/ ScanText
    \/ ScanReturn

Spec == Init /\ [][Next]_vars

(***************************************************************************)
(* ContentControlType (lines 7-16)                                         *)
(***************************************************************************)
ContentControlType ==
    {"RichText", "Text", "Picture", "ComboBox", "DropdownList",
     "BuildingBlock", "Date", "Group", "Checkbox"}

\* line 81
MarkupTypes == {"RichText", "Text", "ComboBox"}

(***************************************************************************)
(* Errors raised by the setter and by set_fields                           *)
(***************************************************************************)
Raise(kind, detail) == [kind |-> kind, detail |-> detail]

\* The exception that leaves split_text, as the setter's caller sees it.
ParseError(err) ==
    IF err = "RuntimeError" THEN Raise("UnmatchedTag", <<>>)      \* line 50
    ELSE Raise("AttrValueError", <<>>)                            \* line 53

(***************************************************************************)
(* int(fmt.attrs['size']) (line 92), over decimal digits                   *)
(***************************************************************************)
Digits == <<"0", "1", "2", "3", "4", "5", "6", "7", "8", "9">>

IsDigit(c) == \E d \in 1..Len(Digits) : Digits[d] = c

DigitValue(c) == (CHOOSE d \in 1..Len(Digits) : Digits[d] = c) - 1

IsIntLiteral(s) == Len(s) > 0 /\ \A i \in 1..Len(s) : IsDigit(s[i])

RECURSIVE IntOf(_)
IntOf(s) ==
    IF s = <<>> THEN 0
    ELSE IntOf(SubSeq(s, 1, Len(s) - 1)) * 10 + DigitValue(s[Len(s)])

(***************************************************************************)
(* The value setter (lines 78-113).  A control is the state of one content *)
(* control of the document: its title and type, the text and start of its  *)
(* range, the formatting calls made on its range, its list entries and the *)
(* entry selected.                                                         *)
(***************************************************************************)
FontTag == <<"f", "o", "n", "t">>
SizeKey == <<"s", "i", "z", "e">>
Gender == <<"P", "a", "t", "i", "e", "n", "t", "e", "n", "g", "e", "s", "c", "h", "l", "e", "c", "h", "t">>

FormatCall(kind, lo, hi, val) == [kind |-> kind, lo |-> lo, hi |-> hi, val |-> val]

\* Faulty variant of SubRange: the span offsets are used without the range start.
SubRangeNoOffset(ctrl, fmt) == [lo |-> fmt.start, hi |-> fmt.stop]

\* lines 85-86: subrange.SetRange(subrange.start + fmt.start, subrange.start + fmt.stop)
SubRange(ctrl, fmt) == [lo |-> ctrl.start + fmt.start, hi |-> ctrl.start + fmt.stop]

\* lines 85-94: one span applied to a control; [ctrl, err]
ApplyFormat(ctrl, fmt) ==
    LET r == SubRange(ctrl, fmt)
        done(call) == [ctrl |-> [ctrl EXCEPT !.fmt = Append(ctrl.fmt, call)],
                       err |-> Raise("none", <<>>)]
        fail(e) == [ctrl |-> ctrl, err |-> e]
    IN  IF fmt.tag = <<"b">> THEN done(FormatCall("Bold", r.lo, r.hi, 1))
        ELSE IF fmt.tag = <<"i">> THEN done(FormatCall("Italic", r.lo, r.hi, 1))
        ELSE IF fmt.tag = FontTag
             THEN IF SizeKey \notin DOMAIN fmt.attrs
                  THEN fail(Raise("KeyError", SizeKey))
                  ELSE IF ~IsIntLiteral(fmt.attrs[SizeKey])
                       THEN fail(Raise("IntValueError", fmt.attrs[SizeKey]))
                       ELSE done(FormatCall("Size", r.lo, r.hi, IntOf(fmt.attrs[SizeKey])))
        ELSE fail(Raise("UnsupportedTag", fmt.tag))

\* line 84: for fmt in fmt_controls, from span k on
RECURSIVE ApplyFormats(_, _, _)
ApplyFormats(ctrl, spans, k) ==
    IF k > Len(spans) THEN [ctrl |-> ctrl, err |-> Raise("none", <<>>)]
    ELSE LET r == ApplyFormat(ctrl, spans[k])
         IN  IF r.err.kind # "none" THEN r
             ELSE ApplyFormats(r.ctrl, spans, k + 1)

\* Faulty variant of MarkupBranch: the raw value is written to the target
\* before it is parsed.
MarkupBranchWritesFirst(ctrl, value) ==
    LET parsed == split_text(value)
    IN  IF parsed.err # "none"
        THEN [ctrl |-> [ctrl EXCEPT !.text = value], err |-> ParseError(parsed.err)]
        ELSE ApplyFormats([ctrl EXCEPT !.text = parsed.text], parsed.tag_stack, 1)

\* lines 82-94
MarkupBranch(ctrl, value) ==
    LET parsed == split_text(value)
    IN  IF parsed.err # "none"
        THEN [ctrl |-> ctrl, err |-> ParseError(parsed.err)]
        ELSE ApplyFormats([ctrl EXCEPT !.text = parsed.text], parsed.tag_stack, 1)

\* entry.Select() / DropDownListEntries[i].Select(), i counted from 1 here
SelectEntry(ctrl, i) ==
    IF i > Len(ctrl.entries)
    THEN [ctrl |-> ctrl, err |-> Raise("IndexError", <<>>)]
    ELSE [ctrl |-> [ctrl EXCEPT !.selected = i], err |-> Raise("none", <<>>)]

\* Faulty variant of GenderBranch: the two entries are taken the other way round.
GenderBranchSwapped(ctrl, value) ==
    IF value = <<"m">> THEN SelectEntry(ctrl, 1)
    ELSE IF value = <<"w">> THEN SelectEntry(ctrl, 2)
    ELSE [ctrl |-> ctrl, err |-> Raise("InvalidGender", value)]

\* lines 97-102
GenderBranch(ctrl, value) ==
    IF value = <<"m">> THEN SelectEntry(ctrl, 2)
    ELSE IF value = <<"w">> THEN SelectEntry(ctrl, 1)
    ELSE [ctrl |-> ctrl, err |-> Raise("InvalidGender", value)]

\* Faulty variant of EntryBranch: the loop has no break, the last match stays
\* selected.
EntryBranchLast(ctrl, value) ==
    LET found == IF \E k \in 1..Len(ctrl.entries) : ctrl.entries[k] = value
                 THEN CHOOSE k \in 1..Len(ctrl.entries) :
                         /\ ctrl.entries[k] = value
                         /\ \A j \in (k+1)..Len(ctrl.entries) : ctrl.entries[j] # value
                 ELSE 0
    IN  IF found = 0
        THEN [ctrl |-> ctrl, err |-> Raise("NoMatchingEntry", value)]
        ELSE SelectEntry(ctrl, found)

\* lines 104-109
EntryBranch(ctrl, value) ==
    LET first == IF \E k \in 1..Len(ctrl.entries) : ctrl.entries[k] = value
                 THEN CHOOSE k \in 1..Len(ctrl.entries) :
                         /\ ctrl.entries[k] = value
                         /\ \A j \in 1..(k-1) : ctrl.entries[j] # value
                 ELSE 0
    IN  IF first = 0
        THEN [ctrl |-> ctrl, err |-> Raise("NoMatchingEntry", value)]
        ELSE SelectEntry(ctrl, first)

\* Faulty variant of DateBranch: a date value goes through the markup parser.
DateBranchParses(ctrl, value) == MarkupBranch(ctrl, value)

\* line 111
DateBranch(ctrl, value) ==
    [ctrl |-> [ctrl EXCEPT !.text = value], err |-> Raise("none", <<>>)]

\* Faulty variant of UnsupportedBranch: a type without a write strategy is skipped
\* silently.
UnsupportedBranchSkips(field, ctrl) == [ctrl |-> ctrl, err |-> Raise("none", <<>>)]

\* line 113
UnsupportedBranch(field, ctrl) ==
    [ctrl |-> ctrl, err |-> Raise("UnsupportedFieldType", field.name)]

\* lines 81-113: the body of the loop for one obj; [ctrl, err]
SetTarget(field, ctrl, value) ==
    IF field.type \in MarkupTypes THEN MarkupBranch(ctrl, value)
    ELSE IF field.type \in {"DropdownList"}
         THEN IF field.name = Gender THEN GenderBranch(ctrl, value)
              ELSE EntryBranch(ctrl, value)
    ELSE IF field.type = "Date" THEN DateBranch(ctrl, value)
    ELSE UnsupportedBranch(field, ctrl)

\* Faulty variant of SetTargets: when a target fails, the targets already
\* written are restored.
RECURSIVE SetTargetsUndo(_, _, _, _, _)
SetTargetsUndo(field, before, ctrls, value, k) ==
    IF k > Len(field.objs) THEN [ctrls |-> ctrls, err |-> Raise("none", <<>>)]
    ELSE LET o == field.objs[k]
             r == SetTarget(field, ctrls[o], value)
         IN  IF r.err.kind # "none" THEN [ctrls |-> before, err |-> r.err]
             ELSE SetTargetsUndo(field, before, [ctrls EXCEPT ![o] = r.ctrl], value, k + 1)

SetTargetsRollsBack(field, ctrls, value, k) == SetTargetsUndo(field, ctrls, ctrls, value, k)

\* line 80: for obj in self.objs, from the k-th on; [ctrls, err]
RECURSIVE SetTargets(_, _, _, _)
SetTargets(field, ctrls, value, k) ==
    IF k > Len(field.objs) THEN [ctrls |-> ctrls, err |-> Raise("none", <<>>)]
    ELSE LET o == field.objs[k]
             r == SetTarget(field, ctrls[o], value)
             after == [ctrls EXCEPT ![o] = r.ctrl]
         IN  IF r.err.kind # "none" THEN [ctrls |-> after, err |-> r.err]
             ELSE SetTargets(field, after, value, k + 1)

\* field.value = value
SetValue(field, ctrls, value) == SetTargets(field, ctrls, value, 1)

(***************************************************************************)
(* Document.get_fields (lines 133-150): the controls in story order,       *)
(* grouped by title; a field holds the indices of its controls.            *)
(***************************************************************************)
RECURSIVE GetFieldsFrom(_, _, _)
GetFieldsFrom(ctrls, i, byName) ==
    IF i > Len(ctrls) THEN byName
    ELSE LET name == ctrls[i].title
         IN  IF name \in DOMAIN byName
             THEN GetFieldsFrom(ctrls, i + 1,
                      [byName EXCEPT ![name].objs = Append(byName[name].objs, i)])
             ELSE GetFieldsFrom(ctrls, i + 1,
                      [n \in DOMAIN byName \cup {name} |->
                          IF n = name
                          THEN [type |-> ctrls[i].type, name |-> name, objs |-> <<i>>]
                          ELSE byName[n]])

get_fields(ctrls) == GetFieldsFrom(ctrls, 1, <<>>)

(***************************************************************************)
(* Document.set_fields (lines 152-157)                                     *)
(***************************************************************************)
\* Values the mapping may carry.
Values ==
    { <<"m">>, <<"w">>,
      \* <b>x<i>y</i></b><font size=12>z</font>
      <<"<", "b", ">", "x", "<", "i", ">", "y", "<", "/", "i", ">", "<", "/", "b", ">",
        "<", "f", "o", "n", "t", " ", "s", "i", "z", "e", "=", "1", "2", ">", "z",
        "<", "/", "f", "o", "n", "t", ">">>,
      \* <u>x</u>
      <<"<", "u", ">", "x", "<", "/", "u", ">">>,
      \* \\</b>
      <<"\\", "\\", "<", "/", "b", ">">>,
      \* <font>x</font><u>y</u>
      <<"<", "f", "o", "n", "t", ">", "x", "<", "/", "f", "o", "n", "t", ">",
        "<", "u", ">", "y", "<", "/", "u", ">">>,
      \* <b>x
      <<"<", "b", ">", "x">> }

Titles == {Gender, <<"N", "a", "m", "e">>}

\* The list entries of a dropdown list: one with a repeated entry, one with a
\* single entry.
EntryLists == { <<<<"w">>, <<"m">>, <<"m">>>>, <<<<"m">>>> }

\* Text of a control before anything is written to it.
Placeholder == <<"-">>

\* What the host reports of one control: title, type and list entries.
\* Only a dropdown list has entries; the control titled Patientengeschlecht
\* is a dropdown list, the one type whose branch reads the name (line 96).
ControlKinds ==
    {[title |-> t, type |-> ty, entries |-> <<>>] :
        t \in Titles \ {Gender}, ty \in ContentControlType \ {"DropdownList"}}
    \cup {[title |-> t, type |-> "DropdownList", entries |-> es] :
        t \in Titles, es \in EntryLists}

NewControl(kind, i) ==
    [title |-> kind.title, type |-> kind.type, entries |-> kind.entries,
     text |-> Placeholder, start |-> (i - 1) * RangeGap, fmt |-> <<>>, selected |-> 0]

Documents ==
    {[i \in 1..Len(ks) |-> NewControl(ks[i], i)] :
        ks \in SeqsUpTo(ControlKinds, MaxControls) \ {<<>>}}

\* A dict of str to str in insertion order: a sequence of <<key, value>>
\* with distinct keys.
Mappings ==
    {m \in SeqsUpTo(Titles \X Values, Cardinality(Titles)) :
        \A i, j \in 1..Len(m) : i # j => m[i][1] # m[j][1]}

IdleScan ==
    /\ fmttext = <<>>
    /\ pos = 1
    /\ text = <<>>
    /\ curtag = <<>>
    /\ tagname = FALSE
    /\ tag_stack = <<>>
    /\ text_index = 0
    /\ escaped = FALSE
    /\ result = "idle"

InitDoc ==
    /\ IdleScan
    /\ controls \in Documents
    /\ mapping = <<>>
    /\ idx = 0
    /\ status = "idle"
    /\ error = Raise("none", <<>>)
    /\ pre = <<>>

\* line 155, with the mapping the caller passes
SetFieldsCall(m) ==
    /\ status = "idle"
    /\ mapping' = m
    /\ idx' = 1
    /\ status' = "running"
    /\ pre' = controls
    /\ UNCHANGED <<controls, error>>
    /\ UNCHANGED parseVars

AtEntry == status = "running" /\ idx <= Len(mapping)

\* line 157: fields[key] raises KeyError
SetFieldMissing ==
    /\ AtEntry
    /\ mapping[idx][1] \notin DOMAIN get_fields(pre)
    /\ status' = "failed"
    /\ error' = Raise("UnknownField", mapping[idx][1])
    /\ UNCHANGED <<controls, mapping, idx, pre>>
    /\ UNCHANGED parseVars

\* line 157: the assignment completes
SetField ==
    /\ AtEntry
    /\ mapping[idx][1] \in DOMAIN get_fields(pre)
    /\ LET r == SetValue(get_fields(pre)[mapping[idx][1]], controls, mapping[idx][2])
       IN  /\ r.err.kind = "none"
           /\ controls' = r.ctrls
           /\ idx' = idx + 1
    /\ UNCHANGED <<mapping, status, error, pre>>
    /\ UNCHANGED parseVars

\* Faulty variant of SetFieldRaises: the document is restored when an assignment fails.
SetFieldRaisesRollsBack ==
    /\ AtEntry
    /\ mapping[idx][1] \in DOMAIN get_fields(pre)
    /\ LET r == SetValue(get_fields(pre)[mapping[idx][1]], controls, mapping[idx][2])
       IN  /\ r.err.kind # "none"
           /\ controls' = pre
           /\ status' = "failed"
           /\ error' = r.err
    /\ UNCHANGED <<mapping, idx, pre>>
    /\ UNCHANGED parseVars

\* line 157: the assignment raises; what it wrote before stays written
SetFieldRaises ==
    /\ AtEntry
    /\ mapping[idx][1] \in DOMAIN get_fields(pre)
    /\ LET r == SetValue(get_fields(pre)[mapping[idx][1]], controls, mapping[idx][2])
       IN  /\ r.err.kind # "none"
           /\ controls' = r.ctrls
           /\ status' = "failed"
           /\ error' = r.err
    /\ UNCHANGED <<mapping, idx, pre>>
    /\ UNCHANGED parseVars

\* the loop of line 156 is exhausted
SetFieldsReturn ==
    /\ status = "running" /\ idx > Len(mapping)
    /\ status' = "done"
    /\ UNCHANGED <<controls, mapping, idx, error, pre>>
    /\ UNCHANGED parseVars

NextDoc ==
    \/ \E m \in Mappings : SetFieldsCall(m)
    \/ SetFieldMissing
    \/ SetField
    \/ SetFieldRaises
    \/ SetFieldsReturn

SpecDoc == InitDoc /\ [][NextDoc]_vars

(***************************************************************************)
(* Properties of split_text                                                *)
(***************************************************************************)
NextChar == fmttext[pos]

\* The name a closing tag in curtag asks for: the first space-separated
\* token without its leading '/'.
ClosingName ==
    LET k == FirstIndex(curtag, " ")
    IN  SubSeq(curtag, 2, IF k = 0 THEN Len(curtag) ELSE k - 1)

\* The scan stands before an unescaped '>' that ends a closing tag.
AtClosingTag ==
    /\ Scanning /\ NextChar = ">" /\ tagname /\ ~escaped
    /\ Len(curtag) > 0 /\ curtag[1] = "/"

\* C1: the scan either returns or fails with the unmatched-closing-tag
\* error (RuntimeError, line 50); no other failure is reachable.
C1_OnlyUnmatchedTagError == result \in {"running", "returned", "RuntimeError"}

\* C2: on return every span has 0 <= start <= len(text) and
\* 0 <= stop <= len(text); no returned span has an unset stop.
C2_SpansWithinText ==
    result = "returned" =>
        \A i \in 1..Len(tag_stack) :
            /\ 0 <= tag_stack[i].start /\ tag_stack[i].start <= Len(text)
            /\ 0 <= tag_stack[i].stop /\ tag_stack[i].stop <= Len(text)

\* C3: a step of the scan changes an entry of the tag stack only if its
\* stop is still unset and no later entry of the same name is still unset;
\* an entry whose stop has been set is never modified again.
C3_ClosedEntryImmutable ==
    [][\A i \in 1..Len(tag_stack) :
          tag_stack'[i] # tag_stack[i] =>
              /\ tag_stack[i].stop = Unset
              /\ \A j \in (i+1)..Len(tag_stack) :
                    tag_stack[j].tag = tag_stack[i].tag => tag_stack[j].stop # Unset]_vars

\* C4: when a closing tag </n> is scanned and no entry of the tag stack has
\* tag exactly n, the scan fails with the unmatched-tag error and never
\* returns a result.
C4_UnmatchedCloseFails ==
    [][/\ (AtClosingTag /\ \A i \in 1..Len(tag_stack) : tag_stack[i].tag # ClosingName)
            => result' = "RuntimeError"
       /\ result = "RuntimeError" => result' = "RuntimeError"]_vars

\* C4 witness: the scan failed on </B> with an entry named b on the stack.
C4_Witness ==
    /\ result = "RuntimeError"
    /\ curtag = <<"/", "B">>
    /\ \E i \in 1..Len(tag_stack) : tag_stack[i].tag = <<"b">>

\* The input has no '<' followed anywhere later by '>'.
NoTagSequence(s) == ~\E i \in 1..Len(s) : \E j \in (i+1)..Len(s) : s[i] = "<" /\ s[j] = ">"

\* The input has neither '<' nor a backslash.
NoMarkupChar(s) == \A i \in 1..Len(s) : s[i] \notin {"<", "\\"}

\* C5 (as claimed): an input with no '<...>' tag sequence is returned
\* unchanged as text, with an empty span list.
C5_NoTagsUnchanged ==
    (result = "returned" /\ NoTagSequence(fmttext)) =>
        (text = fmttext /\ tag_stack = <<>>)

\* C5 (amended): an input with no '<' and no backslash is returned unchanged
\* as text, with an empty span list.
C5_PlainUnchanged ==
    (result = "returned" /\ NoMarkupChar(fmttext)) =>
        (text = fmttext /\ tag_stack = <<>>)

\* C5 witness: a returned input of plain characters that includes '>'.
C5_Witness ==
    /\ result = "returned"
    /\ NoMarkupChar(fmttext)
    /\ Len(fmttext) >= 3
    /\ \E i \in 1..Len(fmttext) : fmttext[i] = ">"

\* The backslash that sets the escape flag emits nothing, and the flag is
\* cleared by the character after it.
EscapeFlagRule ==
    /\ (Scanning /\ ~escaped /\ NextChar = "\\") =>
           (text' = text /\ text_index' = text_index /\ curtag' = curtag /\ escaped')
    /\ (Scanning /\ escaped) => ~escaped'

\* C6 (as claimed): every escaped '<', '>' or backslash adds exactly that
\* character to the text and advances the plain-text index by one; the
\* escaping backslash emits nothing; the flag is cleared after one character.
C6_EscapeEmitsOneChar ==
    [][/\ EscapeFlagRule
       /\ (Scanning /\ escaped /\ NextChar \in {"<", ">", "\\"}) =>
              (text' = Append(text, NextChar) /\ text_index' = text_index + 1)]_vars

\* C6 (amended): outside a tag every escaped '<', '>' or backslash adds
\* exactly that character to the text and advances the plain-text index by
\* one; inside a tag it is appended to the tag buffer and the text and the
\* index stay; the escaping backslash emits nothing; the flag is cleared
\* after one character.
C6_EscapeOutsideTag ==
    [][/\ EscapeFlagRule
       /\ (Scanning /\ escaped /\ NextChar \in {"<", ">", "\\"} /\ ~tagname) =>
              /\ text' = Append(text, NextChar)
              /\ text_index' = text_index + 1
              /\ tag_stack' = tag_stack /\ tagname' = tagname
       /\ (Scanning /\ escaped /\ NextChar \in {"<", ">", "\\"} /\ tagname) =>
              /\ curtag' = Append(curtag, NextChar)
              /\ text' = text /\ text_index' = text_index
              /\ tag_stack' = tag_stack /\ tagname' = tagname]_vars

\* C6 witness: the input \<\> was scanned into the two literal characters.
C6_Witness ==
    /\ result = "returned"
    /\ fmttext = <<"\\", "<", "\\", ">">>
    /\ text = <<"<", ">">>
    /\ text_index = 2

\* The scan stands before an unescaped '>' that ends an opening tag.
AtOpeningTag ==
    /\ Scanning /\ NextChar = ">" /\ tagname /\ ~escaped
    /\ ~(Len(curtag) > 0 /\ curtag[1] = "/")

\* The space-separated tokens of the tag buffer: the name, then the attributes.
TagTokens == Split(curtag, " ")

KeyOf(token) == SubSeq(token, 1, FirstIndex(token, "=") - 1)
ValueOf(token) == SubSeq(token, FirstIndex(token, "=") + 1, Len(token))

\* Each attribute token's part before its first '=' mapped to the part after it.
AttrsByFirstEquals ==
    [k \in {KeyOf(TagTokens[i]) : i \in 2..Len(TagTokens)} |->
        ValueOf(TagTokens[CHOOSE i \in 2..Len(TagTokens) :
                    /\ KeyOf(TagTokens[i]) = k
                    /\ \A j \in (i+1)..Len(TagTokens) : KeyOf(TagTokens[j]) # k])]

\* C11: an opening tag <name t1 ... tk> whose tokens each hold an '=' pushes
\* a span with tag name, start at the plain-text index, stop unset and attrs
\* sending each token's part before its first '=' to the part after it (none
\* for a tag without tokens); <font size=12>big</font> yields text big and
\* the span (font, 0, 3, {size: 12}).
C11_AttrsByFirstEquals ==
    /\ [](result = "returned" /\ fmttext = FontBig =>
            /\ text = <<"b", "i", "g">>
            /\ tag_stack = <<Format(FontTag, 0, 3, (SizeKey :> <<"1", "2">>))>>)
    /\ [][(AtOpeningTag /\ \A i \in 2..Len(TagTokens) : FirstIndex(TagTokens[i], "=") # 0) =>
             /\ result' = "running"
             /\ tag_stack' = Append(tag_stack,
                    Format(TagTokens[1], text_index, Unset, AttrsByFirstEquals))]_vars

\* The interval of span inner lies in the interval of span outer.
Within(inner, outer) == outer.start <= inner.start /\ inner.stop <= outer.stop

\* C12: <X>u<Y>v</Y>w</X> with distinct names returns two spans, both
\* closed, the span of Y within the span of X; <b>bold</b> normal returns the
\* text 'bold normal' and the one span (b, 0, 4, {}).
C12_NestedSpans ==
    result = "returned" =>
        /\ fmttext \in NestedInputs =>
              /\ Len(tag_stack) = 2
              /\ tag_stack[1].stop # Unset /\ tag_stack[2].stop # Unset
              /\ tag_stack[1].start <= tag_stack[1].stop
              /\ tag_stack[2].start <= tag_stack[2].stop
              /\ Within(tag_stack[2], tag_stack[1])
        /\ fmttext = BoldNormal =>
              /\ text = <<"b", "o", "l", "d", " ", "n", "o", "r", "m", "a", "l">>
              /\ tag_stack = <<Format(<<"b">>, 0, 4, <<>>)>>

\* C12 witness: <b>x<i>xx</i>x</b> returned, the i span strictly inside the
\* b span.
C12_Witness ==
    /\ result = "returned"
    /\ fmttext = NestedInput(<<"b">>, <<"x">>, <<"i">>, <<"x", "x">>, <<"x">>)
    /\ tag_stack[1].start = 0 /\ tag_stack[1].stop = 4
    /\ tag_stack[2].start = 1 /\ tag_stack[2].stop = 3

\* C18: the end of the input never fails: the scan returns with the stack as
\* it stands.  An entry is pushed with stop -1, and its stop changes only
\* when a closing tag of its name is scanned, to a value >= 0; so an opening
\* tag never followed by a closing tag of its name is returned with stop -1.
C18_UnclosedObservable ==
    [][/\ (result = "running" /\ pos > Len(fmttext)) =>
              (result' = "returned" /\ tag_stack' = tag_stack /\ text' = text)
       /\ \A i \in 1..Len(tag_stack') :
              /\ i > Len(tag_stack) => tag_stack'[i].stop = Unset
              /\ (i <= Len(tag_stack) /\ tag_stack'[i].stop # tag_stack[i].stop) =>
                    /\ AtClosingTag
                    /\ ClosingName = tag_stack[i].tag
                    /\ tag_stack'[i].stop >= 0]_vars

\* C18 witness: a parse returned one span closed and a later one left open.
C18_Witness ==
    /\ result = "returned"
    /\ Len(tag_stack) = 2
    /\ tag_stack[1].stop >= 0
    /\ tag_stack[2].stop = Unset

\* The tags and starts of a stack, without the stops.
Opened(stack) == [i \in 1..Len(stack) |-> [tag |-> stack[i].tag, start |-> stack[i].start]]

\* C19: every opening tag scanned appends exactly one entry, starting at the
\* plain-text index; no other step adds, removes or reorders entries; so
\* the returned list holds one entry per opening tag in input order, with
\* non-decreasing starts; the empty input returns empty text and no span.
C19_OneEntryPerOpeningTag ==
    /\ [](/\ \A i \in 1..(Len(tag_stack) - 1) : tag_stack[i].start <= tag_stack[i+1].start
          /\ (result = "returned" /\ fmttext = <<>>) => (text = <<>> /\ tag_stack = <<>>))
    /\ [][/\ (AtOpeningTag /\ result' = "running") =>
                 /\ Len(tag_stack') = Len(tag_stack) + 1
                 /\ SubSeq(tag_stack', 1, Len(tag_stack)) = tag_stack
                 /\ tag_stack'[Len(tag_stack')].tag = TagTokens[1]
                 /\ tag_stack'[Len(tag_stack')].start = text_index
          /\ ~(AtOpeningTag /\ result' = "running") =>
                 Opened(tag_stack') = Opened(tag_stack)]_vars

\* C19 witness: <i></i><b> returned two entries in input order, the first
\* one closed.
C19_Witness ==
    /\ result = "returned"
    /\ Opened(tag_stack) = <<[tag |-> <<"i">>, start |-> 0], [tag |-> <<"b">>, start |-> 0]>>
    /\ tag_stack[1].stop = 0
    /\ fmttext = <<"<", "i", ">", "<", "/", "i", ">", "<", "b", ">">>

(***************************************************************************)
(* Properties of the value setter and of set_fields                        *)
(***************************************************************************)
Called == status # "idle"

fields == get_fields(pre)

EntryKey(j) == mapping[j][1]
EntryValue(j) == mapping[j][2]

\* The field the entry at idx is about to be assigned to has type in types.
AssigningTo(types) ==
    /\ AtEntry
    /\ EntryKey(idx) \in DOMAIN fields
    /\ fields[EntryKey(idx)].type \in types

SupportedTags == {<<"b">>, <<"i">>, FontTag}

\* The formatting call a span stands for on a range that starts at start.
ExpectedCall(start, span) ==
    [kind |-> CASE span.tag = <<"b">> -> "Bold"
                [] span.tag = <<"i">> -> "Italic"
                [] span.tag = FontTag -> "Size"
                [] OTHER -> "none",
     lo |-> start + span.start,
     hi |-> start + span.stop,
     val |-> IF span.tag = FontTag /\ SizeKey \in DOMAIN span.attrs
             THEN IntOf(span.attrs[SizeKey]) ELSE 1]

\* C7: after the setter completes on a RichText, Text or ComboBox field,
\* every target's text is the text split_text returns for the value, and the
\* formatting calls made on the target are exactly one per span, in span
\* order, each over [range start + start, range start + stop): Bold for b,
\* Italic for i, Size int(attrs['size']) for font.
C7_MarkupApplied ==
    Called =>
        \A j \in 1..Len(mapping) :
            (j < idx /\ fields[EntryKey(j)].type \in MarkupTypes) =>
                LET parsed == split_text(EntryValue(j))
                    objs == fields[EntryKey(j)].objs
                IN  \A k \in 1..Len(objs) :
                        /\ controls[objs[k]].text = parsed.text
                        /\ controls[objs[k]].fmt =
                              pre[objs[k]].fmt \o
                              [n \in 1..Len(parsed.tag_stack) |->
                                  ExpectedCall(pre[objs[k]].start, parsed.tag_stack[n])]

\* C7 witness: a markup field with two targets was assigned a value with a
\* b, an i and a font span, and set_fields returned.
C7_Witness ==
    /\ status = "done"
    /\ \E j \in 1..Len(mapping) :
          /\ fields[EntryKey(j)].type \in MarkupTypes
          /\ Len(fields[EntryKey(j)].objs) = 2
          /\ Len(split_text(EntryValue(j)).tag_stack) = 3
          /\ \A k \in 1..2 : Len(controls[fields[EntryKey(j)].objs[k]].fmt) = 3

UnsupportedTypes == {"Picture", "BuildingBlock", "Group", "Checkbox"}

\* C8: assigning any value to a field of type Picture, BuildingBlock, Group
\* or Checkbox fails with the unsupported-field-type error and changes no
\* target.
C8_UnsupportedTypeFails ==
    [][AssigningTo(UnsupportedTypes) =>
          /\ status' = "failed"
          /\ error'.kind = "UnsupportedFieldType"
          /\ controls' = controls]_vars

\* C8 witness: the second entry of the mapping failed on a field of an
\* unsupported type after the first entry was applied.
C8_Witness ==
    /\ status = "failed"
    /\ idx = 2
    /\ error.kind = "UnsupportedFieldType"
    /\ fields[EntryKey(idx)].type \in UnsupportedTypes

\* The tags of the spans of value that are not b, i or font.
UnsupportedTagsOf(value) ==
    {split_text(value).tag_stack[n].tag : n \in 1..Len(split_text(value).tag_stack)}
        \ SupportedTags

\* C9: assigning to a RichText, Text or ComboBox field a value whose parse
\* returns a span with a tag other than b, i and font fails with the
\* unsupported-tag error naming such a tag.
C9_UnsupportedTagFails ==
    [][(/\ AssigningTo(MarkupTypes)
        /\ split_text(EntryValue(idx)).err = "none"
        /\ UnsupportedTagsOf(EntryValue(idx)) # {}) =>
          /\ status' = "failed"
          /\ error'.kind = "UnsupportedTag"
          /\ error'.detail \in UnsupportedTagsOf(EntryValue(idx))]_vars

\* The controls of the field of entry j.
TargetsOf(j) ==
    IF EntryKey(j) \in DOMAIN fields
    THEN {fields[EntryKey(j)].objs[k] : k \in 1..Len(fields[EntryKey(j)].objs)}
    ELSE {}

\* C10: set_fields applies the entries in order; when one fails the error
\* reaches the caller, every entry before it was applied in full and keeps
\* what it wrote, and no entry after it has touched its field.
C10_StopsAtFirstFailure ==
    Called =>
        /\ status = "failed" => (error.kind # "none" /\ idx <= Len(mapping))
        /\ status # "failed" => error.kind = "none"
        /\ \A j \in 1..Len(mapping) :
              /\ j < idx =>
                    /\ EntryKey(j) \in DOMAIN fields
                    /\ LET r == SetValue(fields[EntryKey(j)], pre, EntryValue(j))
                       IN  /\ r.err.kind = "none"
                           /\ \A o \in TargetsOf(j) : controls[o] = r.ctrls[o]
              /\ (j > idx \/ (j = idx /\ status = "running")) =>
                    \A o \in TargetsOf(j) : controls[o] = pre[o]

\* C10 witness: the second entry failed and a control of the first entry's
\* field still holds what the first entry wrote.
C10_Witness ==
    /\ status = "failed"
    /\ idx = 2
    /\ \E o \in TargetsOf(1) : controls[o] # pre[o]

\* The controls of the field the entry at idx is assigned to.
Targets == TargetsOf(idx)

\* The step leaves every control as it is, but sets selected to i on targets.
Selects(i) ==
    controls' = [o \in DOMAIN controls |->
                    IF o \in Targets THEN [controls[o] EXCEPT !.selected = i]
                    ELSE controls[o]]

AssigningGender == AssigningTo({"DropdownList"}) /\ EntryKey(idx) = Gender

Fails(kind) == status' = "failed" /\ error'.kind = kind

Completes == status' = "running" /\ idx' = idx + 1 /\ error'.kind = "none"

GenderEntry(value) == IF value = <<"m">> THEN 2 ELSE 1

FirstEqual(es, value) ==
    IF \E k \in 1..Len(es) : es[k] = value
    THEN CHOOSE k \in 1..Len(es) : es[k] = value /\ \A j \in 1..(k-1) : es[j] # value
    ELSE 0

\* C14: on a DropdownList field with another name the setter selects on each
\* target the first entry equal to the value and nothing else; when a target
\* has no such entry it fails with the no-matching-entry error.
C14_FirstMatchSelected ==
    [][(AssigningTo({"DropdownList"}) /\ EntryKey(idx) # Gender) =>
          IF \A o \in Targets : FirstEqual(controls[o].entries, EntryValue(idx)) # 0
          THEN /\ Completes
               /\ controls' = [o \in DOMAIN controls |->
                      IF o \in Targets
                      THEN [controls[o] EXCEPT
                               !.selected = FirstEqual(controls[o].entries, EntryValue(idx))]
                      ELSE controls[o]]
          ELSE Fails("NoMatchingEntry")]_vars

\* C14 witness: m was assigned to a dropdown field not named
\* Patientengeschlecht whose target lists m twice; the first m is selected.
C14_Witness ==
    /\ status = "done"
    /\ \E j \in 1..Len(mapping) :
          /\ EntryKey(j) # Gender /\ EntryValue(j) = <<"m">>
          /\ fields[EntryKey(j)].type = "DropdownList"
          /\ \E o \in TargetsOf(j) :
                /\ controls[o].entries = <<<<"w">>, <<"m">>, <<"m">>>>
                /\ controls[o].selected = 2

\* C15: assigning to a Date field completes for every value and sets every
\* target's text to the value as it is; nothing else changes, so no
\* formatting call is made.
C15_DateVerbatim ==
    [][AssigningTo({"Date"}) =>
          /\ Completes
          /\ controls' = [o \in DOMAIN controls |->
                 IF o \in Targets THEN [controls[o] EXCEPT !.text = EntryValue(idx)]
                 ELSE controls[o]]]_vars

\* C15 witness: a Date field with two targets holds \\</b> as written.
C15_Witness ==
    /\ status = "done"
    /\ \E j \in 1..Len(mapping) :
          /\ fields[EntryKey(j)].type = "Date"
          /\ EntryValue(j) = <<"\\", "\\", "<", "/", "b", ">">>
          /\ Len(fields[EntryKey(j)].objs) = 2
          /\ \A o \in TargetsOf(j) : controls[o].text = EntryValue(j) /\ controls[o].fmt = <<>>

\* C16: when the setter fails at the k-th target of the field, targets
\* 1..k-1 hold what the setter wrote to them, target k holds what was written
\* to it before the failing step (for an unsupported tag: the parsed text
\* and the formatting of the spans before it), and the targets after k are
\* as they were.
C16_NoRollback ==
    (status = "failed" /\ EntryKey(idx) \in DOMAIN fields) =>
        LET f == fields[EntryKey(idx)]
            v == EntryValue(idx)
        IN  \E k \in 1..Len(f.objs) :
               /\ \A n \in 1..(k-1) :
                     /\ SetTarget(f, pre[f.objs[n]], v).err.kind = "none"
                     /\ controls[f.objs[n]] = SetTarget(f, pre[f.objs[n]], v).ctrl
               /\ SetTarget(f, pre[f.objs[k]], v).err = error
               /\ controls[f.objs[k]] = SetTarget(f, pre[f.objs[k]], v).ctrl
               /\ error.kind = "UnsupportedTag" =>
                     /\ controls[f.objs[k]].text = split_text(v).text
                     /\ \A n \in 1..Len(controls[f.objs[k]].fmt) :
                           controls[f.objs[k]].fmt[n] =
                               ExpectedCall(pre[f.objs[k]].start, split_text(v).tag_stack[n])
               /\ error.kind = "NoMatchingEntry" => controls[f.objs[k]] = pre[f.objs[k]]
               /\ \A n \in (k+1)..Len(f.objs) : controls[f.objs[n]] = pre[f.objs[n]]

\* C16 witness: the second target of a dropdown field has no matching entry;
\* the first target keeps its selection.
C16_Witness ==
    /\ status = "failed"
    /\ error.kind = "NoMatchingEntry"
    /\ Len(fields[EntryKey(idx)].objs) = 2
    /\ controls[fields[EntryKey(idx)].objs[1]].selected = 1
    /\ controls[fields[EntryKey(idx)].objs[2]].selected = 0

\* C17: when split_text fails on the value with the unmatched-tag error, the
\* assignment to a RichText, Text or ComboBox field fails with that error and
\* no control is changed.
C17_ParseFailureWritesNothing ==
    [][(AssigningTo(MarkupTypes) /\ split_text(EntryValue(idx)).err = "RuntimeError") =>
          /\ Fails("UnmatchedTag")
          /\ controls' = controls]_vars

\* C17 witness: after a first entry was applied, the second failed to parse on
\* a markup field, whose target still holds its placeholder.
C17_Witness ==
    /\ status = "failed"
    /\ idx = 2
    /\ error.kind = "UnmatchedTag"
    /\ fields[EntryKey(idx)].type \in MarkupTypes
    /\ Len(fields[EntryKey(idx)].objs) = 1
    /\ \A o \in Targets : controls[o].text = Placeholder

\* C20: in every field record get_fields returns, each target has the type
\* of the record.
C20_TargetsShareType ==
    Called =>
        \A name \in DOMAIN fields :
            \A k \in 1..Len(fields[name].objs) :
                pre[fields[name].objs[k]].type = fields[name].type

====
